---- MODULE Spec2Model ----
(***************************************************************************)
(* Lineage and versioning engine of SynthShare (backend/synthpatches).     *)
(*                                                                         *)
(* Patch and Track carry the same lineage code (models.py 18-243 and       *)
(* 262-479); one node table models either kind.  A row is a database row;  *)
(* a request handler is a process p in Procs.  A derivation runs inside    *)
(* transaction.atomic: its INSERT and its writes stay invisible to other   *)
(* handlers until it commits.  select_for_update() is a locking read: the  *)
(* statement fixes its result set when it starts (the rows then committed, *)
(* plus the transaction's own rows), waits until no row of that set is     *)
(* locked by another transaction, locks them, and returns their current    *)
(* values; the locks are released at commit.  Strings are sequences of     *)
(* one-character strings.                                                  *)
(***************************************************************************)
EXTENDS Integers, Sequences, FiniteSets, TLC

\* ---------------------------------------------------------------- bounds
MaxNodes == 4
MaxUsers == 2
MaxProcs == 2
MaxLegacy == 2
MaxUpdates == 1
MaxNodesAPI == 2
MaxGraphRows == 3
MaxNodesView == 3
MaxIndex == 9999
MaxStrLen == 3

Users == 1..MaxUsers
Procs == 1..MaxProcs

VARIABLES rows, tx, nupd
vars == <<rows, tx, nupd>>

\* ---------------------------------------------------------------- utils.py
BASE32_ALPHABET ==
  << "0","1","2","3","4","5","6","7","8","9","a","b","c","d","e","f",
     "g","h","i","j","k","l","m","n","o","p","q","r","s","t","u","v" >>

\* int() takes the letters in either case
UPPER32 ==
  << "0","1","2","3","4","5","6","7","8","9","A","B","C","D","E","F",
     "G","H","I","J","K","L","M","N","O","P","Q","R","S","T","U","V" >>

RECURSIVE Base32Digits(_)
Base32Digits(n) ==
  IF n = 0 THEN << >>
  ELSE Base32Digits(n \div 32) \o << BASE32_ALPHABET[(n % 32) + 1] >>

\* to_base32 without the n == 0 case
ToBase32Loop(n) == Base32Digits(n)

to_base32(n) == IF n = 0 THEN << "0" >> ELSE Base32Digits(n)

\* BASE32_ALPHABET.index(ch): the position of the character, as written
InAlphabet(ch) == \E i \in 1..32 : BASE32_ALPHABET[i] = ch

AlphabetIndex(ch) == (CHOOSE i \in 1..32 : BASE32_ALPHABET[i] = ch) - 1

RECURSIVE Base32Value(_)
Base32Value(s) ==
  IF Len(s) = 0 THEN 0
  ELSE Base32Value(SubSeq(s, 1, Len(s) - 1)) * 32 + AlphabetIndex(s[Len(s)])

\* the ValueError of from_base32 and of int()
ValueError == -1

\* from_base32: the integer, or ValueError for an empty string or a
\* character BASE32_ALPHABET does not hold
from_base32(s) ==
  IF Len(s) = 0 THEN ValueError
  ELSE IF \E i \in 1..Len(s) : ~InAlphabet(s[i]) THEN ValueError
  ELSE Base32Value(s)

\* ---------------------------------------------------------------- int(s, 32)
IsDigit32(ch) == \E i \in 1..32 : BASE32_ALPHABET[i] = ch \/ UPPER32[i] = ch

DigitValue(ch) == (CHOOSE i \in 1..32 : BASE32_ALPHABET[i] = ch \/ UPPER32[i] = ch) - 1

ValidInt32(s) == Len(s) > 0 /\ \A i \in 1..Len(s) : IsDigit32(s[i])

RECURSIVE IntBase32(_)
IntBase32(s) ==
  IF Len(s) = 0 THEN 0
  ELSE IntBase32(SubSeq(s, 1, Len(s) - 1)) * 32 + DigitValue(s[Len(s)])

\* ---------------------------------------------------------------- str.split('.', 1)
HasDot(v) == \E i \in 1..Len(v) : v[i] = "."

DotPos(v) == CHOOSE i \in 1..Len(v) : v[i] = "." /\ \A j \in 1..(i - 1) : v[j] # "."

ForkStr(v) == IF HasDot(v) THEN SubSeq(v, 1, DotPos(v) - 1) ELSE v

EditStr(v) == SubSeq(v, DotPos(v) + 1, Len(v))

StartsWith(v, prefix) ==
  Len(v) >= Len(prefix) /\ SubSeq(v, 1, Len(prefix)) = prefix

MakeVersion(f_str, e_str) == f_str \o << "." >> \o e_str

DefaultVersion == << "0", ".", "0" >>

\* Patch._parse_version: (fork, edit) as integers, (0, 0) on any failure
_parse_version(ver) ==
  IF HasDot(ver) /\ ValidInt32(ForkStr(ver)) /\ ValidInt32(EditStr(ver))
  THEN << IntBase32(ForkStr(ver)), IntBase32(EditStr(ver)) >>
  ELSE << 0, 0 >>

SetMax(S) == CHOOSE m \in S : \A x \in S : x <= m

\* utils.parse_version: (fork_str, edit_str, fork_int, edit_int), or
\* ValueError when the string has no dot or a segment does not decode
utils_parse_version(version) ==
  IF ~HasDot(version) THEN ValueError
  ELSE IF from_base32(ForkStr(version)) = ValueError
          \/ from_base32(EditStr(version)) = ValueError THEN ValueError
  ELSE << ForkStr(version), EditStr(version),
          from_base32(ForkStr(version)), from_base32(EditStr(version)) >>

\* int(s, 32) of a version segment
int32(s) == IF ValidInt32(s) THEN IntBase32(s) ELSE ValueError

\* ---------------------------------------------------------------- the store
Ids == 1..Len(rows)

Committed == { i \in Ids : rows[i].st = "committed" }

\* rows a statement of handler p can see: committed ones and its own
Visible(p) == { i \in Ids : rows[i].st = "committed" \/ i = tx[p].self }

\* SoftDeleteManager.with_deleted / get_queryset over a set of row ids
with_deleted(S) == S

get_queryset(S) == { i \in S : ~rows[i].is_deleted }

LockedByOther(p, i) == \E q \in Procs : q # p /\ i \in tx[q].locked

Locked(i) == \E q \in Procs : i \in tx[q].locked

\* A row of the Patch / Track table.  Columns: owner (uploaded_by), root,
\* stem, pred (immediate_predecessor), version, forks, is_deleted,
\* is_posted; 0 is NULL.  st tells whether the INSERT is committed.  History
\* fields, never read by an action: via (the branch of save that finalised
\* the row), src (the source it was derived from),
\* seen (the source's forks value when it was loaded), overlap (the rows of
\* the derivations in flight when this one committed).
NewRow(user, root, stem, pred, version, st, via) ==
  [ owner |-> user, root |-> root, stem |-> stem, pred |-> pred,
    version |-> version, forks |-> 0, is_deleted |-> FALSE,
    is_posted |-> FALSE, st |-> st, via |-> via, src |-> 0,
    seen |-> 0, overlap |-> {} ]

IdleTx ==
  [ pc |-> "idle", kind |-> "none", self |-> 0, src |-> 0, srcOwner |-> 0,
    srcVersion |-> << >>, srcForks |-> 0, root |-> 0, user |-> 0,
    force |-> FALSE, fork_str |-> << >>, head |-> 0, snap |-> {},
    locked |-> {}, next |-> 0, target |-> 0, inst |-> << >>,
    resp |-> << >> ]

Init ==
  /\ rows = << >>
  /\ tx = [ p \in Procs |-> IdleTx ]
  /\ nupd = 0

\* ---------------------------------------------------------------- create_root
\* create_root that forgets to anchor the stem on the new node
CreateRootUnanchored(user) ==
  /\ Len(rows) < MaxNodes
  /\ LET id == Len(rows) + 1 IN
       rows' = Append(rows, NewRow(user, id, 0, 0, << "0", ".", "0" >>, "committed", "root"))
  /\ UNCHANGED <<tx, nupd>>

\* Patch.create_root + Patch.save, root branch: one transaction that touches
\* only its own row
CreateRoot(user) ==
  /\ Len(rows) < MaxNodes
  /\ LET id == Len(rows) + 1 IN
       rows' = Append(rows, NewRow(user, id, id, 0, << "0", ".", "0" >>, "committed", "root"))
  /\ UNCHANGED <<tx, nupd>>

\* ---------------------------------------------------------------- fork_from / edit_from
\* the decision without the _force_fork test
IsEditIgnoringForce(user, srcOwner, force) == user = srcOwner

\* Edit vs fork decision of Patch.save
IsEdit(user, srcOwner, force) == user = srcOwner /\ ~force

\* fork_from / edit_from up to the INSERT of Patch.save (super().save()):
\* the new row carries root, stem = predecessor = source and the column
\* default version '0.0'
Insert(p, src, user, force) ==
  /\ tx[p].pc = "idle"
  /\ Len(rows) < MaxNodes
  /\ src \in Committed
  /\ LET id == Len(rows) + 1
         root == IF rows[src].root # 0 THEN rows[src].root ELSE src
     IN /\ rows' = Append(rows, NewRow(user, root, src, src, DefaultVersion, "pending", "none"))
        /\ tx' = [ tx EXCEPT ![p] =
                     [ IdleTx EXCEPT !.pc = "inserted",
                                     !.kind = IF IsEdit(user, rows[src].owner, force)
                                              THEN "edit" ELSE "fork",
                                     !.self = id, !.src = src,
                                     !.srcOwner = rows[src].owner,
                                     !.srcVersion = rows[src].version,
                                     !.srcForks = rows[src].forks,
                                     !.root = root, !.user = user,
                                     !.force = force ] ]
        /\ UNCHANGED nupd

\* the fork head taken to be the root whatever the fork segment
HeadLookupRootOnly(p, root, source_node, fork_str) == root

\* the fork head looked up through the default manager, which leaves the
\* soft-deleted rows out
HeadLookupLiveOnly(p, root, source_node, fork_str) ==
  LET all == get_queryset(Visible(p))
      exact == { i \in all : rows[i].root = root
                             /\ rows[i].version = MakeVersion(fork_str, << "0" >>) }
      inFork == { i \in all : rows[i].root = root
                              /\ StartsWith(rows[i].version, fork_str \o << "." >>) }
  IN IF fork_str = << "0" >> THEN root
     ELSE IF exact # {} THEN SetMax(exact)
     ELSE IF inFork # {} THEN CHOOSE i \in inFork : \A j \in inFork : i <= j
     ELSE IF ForkStr(rows[source_node].version) = fork_str THEN source_node
     ELSE root

\* the fallback over the fork's rows taking Meta.ordering's first row, the
\* latest, instead of the earliest
HeadLookupLatestInFork(p, root, source_node, fork_str) ==
  LET all == with_deleted(Visible(p))
      exact == { i \in all : rows[i].root = root
                             /\ rows[i].version = MakeVersion(fork_str, << "0" >>) }
      inFork == { i \in all : rows[i].root = root
                              /\ StartsWith(rows[i].version, fork_str \o << "." >>) }
  IN IF fork_str = << "0" >> THEN root
     ELSE IF exact # {} THEN SetMax(exact)
     ELSE IF inFork # {} THEN SetMax(inFork)
     ELSE IF ForkStr(rows[source_node].version) = fork_str THEN source_node
     ELSE root

\* Patch._safe_fork_head_lookup; Meta.ordering = ['-created_at'] makes
\* .first() the latest row, order_by('created_at').first() the earliest
_safe_fork_head_lookup(p, root, source_node, fork_str) ==
  LET all == with_deleted(Visible(p))
      exact == { i \in all : rows[i].root = root
                             /\ rows[i].version = MakeVersion(fork_str, << "0" >>) }
      inFork == { i \in all : rows[i].root = root
                              /\ StartsWith(rows[i].version, fork_str \o << "." >>) }
  IN IF fork_str = << "0" >> THEN root
     ELSE IF exact # {} THEN SetMax(exact)
     ELSE IF inFork # {} THEN CHOOSE i \in inFork : \A j \in inFork : i <= j
     ELSE IF ForkStr(rows[source_node].version) = fork_str THEN source_node
     ELSE root

\* result set of the locking read of _next_edit_index_user
EditCandidates(p, root, fork_str, user_id) ==
  { i \in get_queryset(Visible(p)) :
      /\ rows[i].root = root
      /\ rows[i].owner = user_id
      /\ StartsWith(rows[i].version, fork_str \o << "." >>) }

\* result set of the locking read of _next_fork_index_for_root
ForkCandidates(p, root) ==
  { i \in with_deleted(Visible(p)) : rows[i].root = root }

\* the locking read starts: its result set is fixed.  For an edit,
\* _finalise_edit first takes the fork segment of the source and resolves
\* the fork head.
ScanStart(p) ==
  /\ tx[p].pc = "inserted"
  /\ LET fork_str == ForkStr(tx[p].srcVersion) IN
       tx' = [ tx EXCEPT ![p] =
                 IF tx[p].kind = "edit"
                 THEN [ @ EXCEPT !.pc = "scanning",
                                 !.fork_str = fork_str,
                                 !.head = _safe_fork_head_lookup(p, tx[p].root, tx[p].src, fork_str),
                                 !.snap = EditCandidates(p, tx[p].root, fork_str, tx[p].user) ]
                 ELSE [ @ EXCEPT !.pc = "scanning",
                                 !.snap = ForkCandidates(p, tx[p].root) ] ]
  /\ UNCHANGED <<rows, nupd>>

\* Patch._next_edit_index_user over the rows read
_next_edit_index_user(S) ==
  LET es == { _parse_version(rows[i].version)[2] : i \in S } IN
    SetMax(es \cup {0}) + 1

\* the fork index computed over the non-deleted rows only (the default
\* manager instead of with_deleted())
NextForkIndexLiveOnly(S) ==
  LET fork_indices ==
        { IntBase32(ForkStr(rows[i].version)) :
            i \in { j \in get_queryset(S) : /\ HasDot(rows[j].version)
                                            /\ EditStr(rows[j].version) = << "0" >>
                                            /\ ValidInt32(ForkStr(rows[j].version)) } }
  IN IF fork_indices # {} THEN SetMax(fork_indices) + 1 ELSE 1

\* Patch._next_fork_index_for_root over the rows read
_next_fork_index_for_root(S) ==
  LET fork_indices ==
        { IntBase32(ForkStr(rows[i].version)) :
            i \in { j \in S : /\ HasDot(rows[j].version)
                              /\ EditStr(rows[j].version) = << "0" >>
                              /\ ValidInt32(ForkStr(rows[j].version)) } }
  IN IF fork_indices # {} THEN SetMax(fork_indices) + 1 ELSE 1

\* the locking read completes: every row of its result set is free, gets
\* locked, and the next index is computed from the rows' current values
ScanLock(p) ==
  /\ tx[p].pc = "scanning"
  /\ \A i \in tx[p].snap : ~LockedByOther(p, i)
  /\ tx' = [ tx EXCEPT ![p] =
               [ @ EXCEPT !.pc = "locked",
                          !.locked = tx[p].snap,
                          !.next = IF tx[p].kind = "edit"
                                   THEN _next_edit_index_user(
                                          tx[p].snap \cap EditCandidates(p, tx[p].root, tx[p].fork_str, tx[p].user))
                                   ELSE _next_fork_index_for_root(
                                          tx[p].snap \cap ForkCandidates(p, tx[p].root)) ] ]
  /\ UNCHANGED <<rows, nupd>>

\* rows of derivations still in flight, other than p's
InFlight(p) == { tx[q].self : q \in { r \in Procs : r # p /\ tx[r].self # 0 } }

\* the row written by _finalise_edit
FinalisedEdit(p) ==
  [ rows[tx[p].self] EXCEPT
      !.stem = tx[p].head,
      !.version = MakeVersion(tx[p].fork_str, to_base32(tx[p].next)),
      !.st = "committed", !.via = "edit", !.src = tx[p].src,
      !.seen = tx[p].srcForks, !.overlap = InFlight(p) ]

\* the row written by _finalise_fork
FinalisedFork(p) ==
  [ rows[tx[p].self] EXCEPT
      !.stem = tx[p].self,
      !.pred = tx[p].src,
      !.version = MakeVersion(to_base32(tx[p].next), << "0" >>),
      !.st = "committed", !.via = "fork", !.src = tx[p].src,
      !.seen = tx[p].srcForks, !.overlap = InFlight(p) ]

\* the increment as a read-modify-write of the loaded source instance
IncrementForksLoaded(p, src) == tx[p].srcForks + 1

\* update(forks=F('forks') + 1) on the source, found through with_deleted()
IncrementForks(p, src) ==
  IF src \in with_deleted(Committed) THEN rows[src].forks + 1 ELSE rows[src].forks

\* a commit that leaves the transaction's row locks in place
CommitKeepingLocks(p) ==
  /\ tx[p].pc = "locked"
  /\ tx[p].kind = "fork" => ~LockedByOther(p, tx[p].src)
  /\ rows' = [ i \in Ids |->
                 IF i = tx[p].self
                 THEN IF tx[p].kind = "edit" THEN FinalisedEdit(p) ELSE FinalisedFork(p)
                 ELSE IF tx[p].kind = "fork" /\ i = tx[p].src
                 THEN [ rows[i] EXCEPT !.forks = IncrementForks(p, i) ]
                 ELSE rows[i] ]
  /\ tx' = [ tx EXCEPT ![p] = [ IdleTx EXCEPT !.locked = tx[p].locked ] ]
  /\ UNCHANGED nupd

\* the finalising UPDATE, the fork-counter increment and the commit
Commit(p) ==
  /\ tx[p].pc = "locked"
  /\ tx[p].kind = "fork" => ~LockedByOther(p, tx[p].src)
  /\ rows' = [ i \in Ids |->
                 IF i = tx[p].self
                 THEN IF tx[p].kind = "edit" THEN FinalisedEdit(p) ELSE FinalisedFork(p)
                 ELSE IF tx[p].kind = "fork" /\ i = tx[p].src
                 THEN [ rows[i] EXCEPT !.forks = IncrementForks(p, i) ]
                 ELSE rows[i] ]
  /\ tx' = [ tx EXCEPT ![p] = IdleTx ]
  /\ UNCHANGED nupd

\* a failing derivation without the transaction: the inserted row stays,
\* committed with the column default version
AbortAutocommit(p) ==
  /\ tx[p].pc \in { "inserted", "scanning", "locked" }
  /\ rows' = [ rows EXCEPT ![tx[p].self].st = "committed" ]
  /\ tx' = [ tx EXCEPT ![p] = IdleTx ]
  /\ UNCHANGED nupd

\* an exception leaves fork_from / edit_from (index computation, fork-head
\* resolution or the finalising write failed): transaction.atomic rolls the
\* INSERT back and releases the locks; the row's id is not used again
Abort(p) ==
  /\ tx[p].pc \in { "inserted", "scanning", "locked" }
  /\ rows' = [ rows EXCEPT ![tx[p].self].st = "aborted", ![tx[p].self].src = tx[p].src ]
  /\ tx' = [ tx EXCEPT ![p] = IdleTx ]
  /\ UNCHANGED nupd

\* ---------------------------------------------------------------- views.py
\* a soft delete that also takes the deleted fork off its source's counter
SoftDeleteUncount(n, user) ==
  /\ n \in Committed
  /\ rows[n].owner = user
  /\ ~Locked(n)
  /\ rows' = [ i \in Ids |->
                 IF i = n THEN [ rows[i] EXCEPT !.is_deleted = TRUE ]
                 ELSE IF i = rows[n].pred /\ rows[n].stem = n /\ rows[i].forks > 0
                 THEN [ rows[i] EXCEPT !.forks = @ - 1 ]
                 ELSE rows[i] ]
  /\ UNCHANGED <<tx, nupd>>

\* PatchViewSet.destroy / TrackViewSet.destroy: soft delete by the owner,
\* saved with update_fields=['is_deleted']
SoftDelete(n, user) ==
  /\ n \in Committed
  /\ rows[n].owner = user
  /\ ~Locked(n)
  /\ rows' = [ rows EXCEPT ![n].is_deleted = TRUE ]
  /\ UNCHANGED <<tx, nupd>>

\* post_patch / TrackViewSet.post: the owner posts the node
Post(n, user) ==
  /\ n \in with_deleted(Committed)
  /\ rows[n].owner = user
  /\ ~Locked(n)
  /\ rows' = [ rows EXCEPT ![n].is_posted = TRUE ]
  /\ UNCHANGED <<tx, nupd>>

\* unpost_patch / TrackViewSet.unpost
Unpost(n, user) ==
  /\ n \in with_deleted(Committed)
  /\ rows[n].owner = user
  /\ ~Locked(n)
  /\ rows' = [ rows EXCEPT ![n].is_posted = FALSE ]
  /\ UNCHANGED <<tx, nupd>>

\* get_object of the view sets: deleted nodes only for their owner, unposted
\* nodes only for their owner
get_object(n, user) ==
  /\ n \in with_deleted(Committed)
  /\ rows[n].is_deleted => rows[n].owner = user
  /\ rows[n].owner # user => rows[n].is_posted

\* the columns of a row
Columns == { "owner", "root", "stem", "pred", "version", "forks", "is_deleted", "is_posted" }

\* PatchViewSet.update / TrackViewSet.update up to get_serializer: the
\* instance is loaded
UpdateLoad(p, n, user) ==
  /\ tx[p].pc = "idle"
  /\ nupd < MaxUpdates
  /\ get_object(n, user)
  /\ tx' = [ tx EXCEPT ![p] =
               [ IdleTx EXCEPT !.pc = "upd", !.user = user, !.target = n,
                               !.inst = [ c \in Columns |-> rows[n][c] ] ] ]
  /\ nupd' = nupd + 1
  /\ UNCHANGED rows

\* what a request may carry for the writable serializer fields: nothing, or
\* one of root, stem, immediate_predecessor (NULL or a row of
\* objects.all()), or is_posted
UpdateData ==
  { << "none", 0 >> }
    \cup { << f, h >> : f \in { "root", "stem", "pred" }, h \in {0} \cup get_queryset(Committed) }
    \cup { << "is_posted", b >> : b \in BOOLEAN }

\* TrackSerializer.update (ModelSerializer.update for Patch): setattr of the
\* validated fields, then instance.save(), which writes every column of the
\* loaded instance
UpdateSave(p, data) ==
  /\ tx[p].pc = "upd"
  /\ data \in UpdateData
  /\ ~Locked(tx[p].target)
  /\ LET n == tx[p].target
         inst == IF data[1] = "none" THEN tx[p].inst
                 ELSE [ tx[p].inst EXCEPT ![data[1]] = data[2] ]
     IN rows' = [ rows EXCEPT ![n] =
                    [ c \in DOMAIN rows[n] |->
                        IF c \in Columns THEN inst[c] ELSE rows[n][c] ] ]
  /\ tx' = [ tx EXCEPT ![p] = IdleTx ]
  /\ UNCHANGED nupd

\* the loaded instance: the columns of row n
ColumnsOfRow(n) == [ c \in Columns |-> rows[n][c] ]

\* what the body of an update request may carry: the writable serializer
\* fields, or is_deleted, which is a column but no field of the serializers
RequestData == UpdateData \cup { << "is_deleted", b >> : b \in BOOLEAN }

\* serializer.validated_data: keys that are no serializer field are dropped
validated_data(data) == IF data \in UpdateData THEN data ELSE << "none", 0 >>

\* PatchViewSet.update / TrackViewSet.update as one step, when no other
\* request runs beside it: get_object, the owner test for is_deleted,
\* is_valid, then the serializer's update and instance.save()
Update(p, n, user, data) ==
  /\ tx[p].pc = "idle"
  /\ nupd < MaxUpdates
  /\ get_object(n, user)
  /\ data \in RequestData
  /\ data[1] = "is_deleted" => rows[n].owner = user
  /\ LET v == validated_data(data)
         inst == IF v[1] = "none" THEN ColumnsOfRow(n)
                 ELSE [ ColumnsOfRow(n) EXCEPT ![v[1]] = v[2] ]
     IN rows' = [ rows EXCEPT ![n] =
                    [ c \in DOMAIN rows[n] |->
                        IF c \in Columns THEN inst[c] ELSE rows[n][c] ] ]
  /\ tx' = [ tx EXCEPT ![p] =
               [ IdleTx EXCEPT !.pc = "updated", !.user = user, !.target = n,
                               !.inst = data ] ]
  /\ nupd' = nupd + 1

\* the response to the update is sent and the handler is free again
RespondUpdated(p) ==
  /\ tx[p].pc = "updated"
  /\ tx' = [ tx EXCEPT ![p] = IdleTx ]
  /\ UNCHANGED <<rows, nupd>>

\* ---------------------------------------------------------------- serializers.py
\* a source id validated against every stored row, soft-deleted ones too
ResolvesWithDeleted(stem_id) == stem_id \in with_deleted(Committed)

\* PrimaryKeyRelatedField(queryset=Patch.objects.all()): the stem id of a
\* create request resolves to a non-deleted stored row
Resolves(stem_id) == stem_id \in get_queryset(Committed)

\* the request is answered with an error; nothing was written
Reject(p, stem_id, user) ==
  /\ tx' = [ tx EXCEPT ![p] =
               [ IdleTx EXCEPT !.pc = "rejected", !.target = stem_id, !.user = user ] ]
  /\ UNCHANGED <<rows, nupd>>

\* POST with a stem: is_valid, then PatchSerializer.create /
\* TrackSerializer.create route to edit_from when the requester owns the
\* source and to fork_from otherwise
Create(p, stem_id, user) ==
  /\ tx[p].pc = "idle"
  /\ IF Resolves(stem_id)
     THEN Insert(p, stem_id, user, user # rows[stem_id].owner)
     ELSE Reject(p, stem_id, user)

\* fork_track: get_object_or_404 over with_deleted(), then the serializer
\* with stem = pk
ForkTrack(p, pk, user) ==
  /\ tx[p].pc = "idle"
  /\ IF pk \in with_deleted(Committed)
     THEN Create(p, pk, user)
     ELSE Reject(p, pk, user)

\* the error response is sent and the handler is free again
RespondError(p) ==
  /\ tx[p].pc = "rejected"
  /\ tx' = [ tx EXCEPT ![p] = IdleTx ]
  /\ UNCHANGED <<rows, nupd>>

\* ---------------------------------------------------------------- lineage_view
\* lineage_view / track_lineage_view.  created_at grows with the id, so
\* order_by('created_at', 'id') is the order of the ids.
X0 == 120

Y0 == 640

COL_GAP == 160

ROW_GAP == 90

SetMin(S) == CHOOSE m \in S : \A x \in S : m <= x

\* a parse that keeps the fork segment when only the edit segment fails
ParseVersionPartial(ver) ==
  IF HasDot(ver) /\ ValidInt32(ForkStr(ver))
  THEN << IntBase32(ForkStr(ver)),
          IF ValidInt32(EditStr(ver)) THEN IntBase32(EditStr(ver)) ELSE 0 >>
  ELSE << 0, 0 >>

\* the local parse_version of the view: (fork, edit), (0, 0) on any failure
parse_version(ver) ==
  IF HasDot(ver) /\ ValidInt32(ForkStr(ver)) /\ ValidInt32(EditStr(ver))
  THEN << IntBase32(ForkStr(ver)), IntBase32(EditStr(ver)) >>
  ELSE << 0, 0 >>

f_idx(n) == parse_version(rows[n].version)[1]

\* the effective root: the lineage's root, or its oldest living node when
\* the root is soft-deleted
EffectiveRoot(pk) ==
  LET root == IF rows[pk].root # 0 THEN rows[pk].root ELSE pk
      living_roots == { i \in with_deleted(Committed) :
                          rows[i].root = root /\ ~rows[i].is_deleted }
  IN IF rows[root].is_deleted /\ living_roots # {} THEN SetMin(living_roots) ELSE root

\* the walk up immediate_predecessor from the inspected node
RECURSIVE Ancestors(_, _)
Ancestors(n, ancestor_ids) ==
  IF n = 0 \/ n \in ancestor_ids THEN ancestor_ids
  ELSE Ancestors(rows[n].pred, ancestor_ids \cup {n})

\* the rows listed when the lineage is selected by stem instead of root
PatchesByStem(pk, viewer) ==
  LET root == EffectiveRoot(pk)
      all == with_deleted(Committed)
      visible == IF viewer = rows[pk].owner
                 THEN { i \in all : rows[i].stem = root }
                 ELSE { i \in all : /\ rows[i].stem = root
                                    /\ (rows[i].is_posted \/ i \in Ancestors(pk, {})) }
  IN IF visible = {} THEN { pk } ELSE visible

\* the rows listed: visible_q over with_deleted(), or the inspected node
\* alone when nothing matches
Patches(pk, viewer) ==
  LET root == EffectiveRoot(pk)
      all == with_deleted(Committed)
      visible == IF viewer = rows[pk].owner
                 THEN { i \in all : rows[i].root = root }
                 ELSE { i \in all : /\ rows[i].root = root
                                    /\ (rows[i].is_posted \/ i \in Ancestors(pk, {})) }
  IN IF visible = {} THEN { pk } ELSE visible

\* an edge for every node with a predecessor, listed or not
HasAnyPred(P, n) == rows[n].pred # 0

\* the node has an entry in children: its predecessor is listed
HasListedPred(P, n) == rows[n].pred # 0 /\ rows[n].pred \in P

\* depth of the breadth-first walk from root_id over children; -1 when the
\* walk does not reach the node
RECURSIVE DepthFrom(_, _, _, _)
DepthFrom(P, root_id, n, seen) ==
  IF n = root_id THEN 0
  ELSE IF n \in seen \/ ~HasListedPred(P, n) THEN -1
  ELSE LET d == DepthFrom(P, root_id, rows[n].pred, seen \cup {n})
       IN IF d = -1 THEN -1 ELSE d + 1

\* depth.get(p.id, 0)
base_d(P, root_id, n) ==
  LET d == DepthFrom(P, root_id, n, {}) IN IF d = -1 THEN 0 ELSE d

\* the children of a node ranked by creation only, not by edit segment
SiblingRankByAge(P, root_id, n) ==
  IF rows[n].pred # 0 /\ rows[n].pred \in P
  THEN 1 + Cardinality({ k \in P :
             /\ rows[k].pred = rows[n].pred
             /\ parse_version(rows[k].version)[1] = parse_version(rows[n].version)[1]
             /\ k < n })
  ELSE IF n = root_id THEN 0 ELSE 1

\* sibling_rank.get(p.id, 1)
sibling_rank(P, root_id, n) ==
  IF HasListedPred(P, n)
  THEN 1 + Cardinality({ k \in P :
             /\ rows[k].pred = rows[n].pred
             /\ f_idx(k) = f_idx(n)
             /\ LET ek == parse_version(rows[k].version)[2]
                    en == parse_version(rows[n].version)[2]
                IN ek < en \/ (ek = en /\ k < n) })
  ELSE IF n = root_id THEN 0 ELSE 1

\* chrono_rank.get(p.id, 0)
chrono_rank(P, n) == Cardinality({ k \in P : f_idx(k) = f_idx(n) /\ k < n })

Max2(a, b) == IF a >= b THEN a ELSE b

\* the candidate row without the chronological rank
ProposedRowTreeOnly(P, root_id, n) ==
  base_d(P, root_id, n) + Max2(0, sibling_rank(P, root_id, n) - 1)

proposed_row(P, root_id, n) ==
  Max2(base_d(P, root_id, n) + Max2(0, sibling_rank(P, root_id, n) - 1), chrono_rank(P, n))

\* the placement without the search for a free row
PlaceRowNoProbe(row, taken_rows) == row

\* while proposed_row in taken_rows[f_idx]: proposed_row += 1
PlaceRow(row, taken_rows) ==
  CHOOSE m \in row..(row + Cardinality(taken_rows)) :
    m \notin taken_rows /\ \A j \in row..(m - 1) : j \in taken_rows

\* the row given to node n: the nodes of its column are placed in the
\* order of their ids
RECURSIVE Row(_, _, _)
Row(P, root_id, n) ==
  LET taken_rows == { Row(P, root_id, k) : k \in { j \in P : f_idx(j) = f_idx(n) /\ j < n } }
  IN PlaceRow(proposed_row(P, root_id, n), taken_rows)

\* the payload: nodes and edges
lineage_view(pk, viewer) ==
  LET P == Patches(pk, viewer)
      root_id == EffectiveRoot(pk)
  IN [ nodes |-> { [ id |-> n,
                     version |-> rows[n].version,
                     is_posted |-> rows[n].is_posted,
                     is_deleted |-> rows[n].is_deleted,
                     isCurrent |-> (n = pk),
                     sibling_rank |-> sibling_rank(P, root_id, n),
                     column |-> f_idx(n),
                     x |-> X0 + f_idx(n) * COL_GAP,
                     y |-> Y0 - Row(P, root_id, n) * ROW_GAP ] : n \in P },
       edges |-> { << rows[n].pred, n >> : n \in { m \in P : HasListedPred(P, m) } } ]

\* a graph request that stores the substituted root on the inspected node
LineageViewRepairingRoot(p, pk, viewer) ==
  /\ tx[p].pc = "idle"
  /\ IF pk \in with_deleted(Committed)
     THEN /\ tx' = [ tx EXCEPT ![p] =
                      [ IdleTx EXCEPT !.pc = "responded", !.target = pk,
                                      !.user = viewer, !.resp = lineage_view(pk, viewer) ] ]
          /\ rows' = [ rows EXCEPT ![pk].root = EffectiveRoot(pk) ]
          /\ UNCHANGED nupd
     ELSE Reject(p, pk, viewer)

\* GET lineage: the handler builds the payload for the inspected node pk
\* and the requester (0 is an anonymous requester), or answers 404 when no
\* row has that id
LineageView(p, pk, viewer) ==
  /\ tx[p].pc = "idle"
  /\ IF pk \in with_deleted(Committed)
     THEN /\ tx' = [ tx EXCEPT ![p] =
                      [ IdleTx EXCEPT !.pc = "responded", !.target = pk,
                                      !.user = viewer, !.resp = lineage_view(pk, viewer) ] ]
          /\ UNCHANGED <<rows, nupd>>
     ELSE Reject(p, pk, viewer)

\* the response is sent and the handler is free again
Respond(p) ==
  /\ tx[p].pc = "responded"
  /\ tx' = [ tx EXCEPT ![p] = IdleTx ]
  /\ UNCHANGED <<rows, nupd>>

\* ---------------------------------------------------------------- lineage_view, loop by loop
\* The two loops of lineage_view that follow stored predecessor links, one
\* iteration per step.  tx[p].head is n, tx[p].snap is ancestor_ids,
\* tx[p].inst holds depth, the deque q and the ids already taken off q.

\* the ids of a set in the order of patches (created_at, id)
RECURSIVE InOrder(_)
InOrder(S) == IF S = {} THEN << >> ELSE << SetMin(S) >> \o InOrder(S \ { SetMin(S) })

\* the rows listed, given the ancestor_ids the walk collected
PatchesGiven(pk, viewer, ancestor_ids) ==
  LET root == EffectiveRoot(pk)
      all == with_deleted(Committed)
      visible == IF viewer = rows[pk].owner
                 THEN { i \in all : rows[i].root = root }
                 ELSE { i \in all : /\ rows[i].root = root
                                    /\ (rows[i].is_posted \/ i \in ancestor_ids) }
  IN IF visible = {} THEN { pk } ELSE visible

\* children[cur]: the listed nodes whose predecessor is cur and is listed
children(P, cur) == IF cur \in P THEN { n \in P : rows[n].pred = cur } ELSE {}

\* depth = {root_id: 0}; q = deque([root_id])
BfsInit(pk) ==
  [ depth |-> [ k \in { EffectiveRoot(pk) } |-> 0 ],
    q |-> << EffectiveRoot(pk) >>,
    popped |-> {} ]

\* the request arrives: the owner of the inspected node goes straight to
\* the depth pass, any other requester walks the ancestor path first
WalkStart(p, pk, viewer) ==
  /\ tx[p].pc = "idle"
  /\ pk \in with_deleted(Committed)
  /\ tx' = [ tx EXCEPT ![p] =
               IF viewer = rows[pk].owner
               THEN [ IdleTx EXCEPT !.pc = "bfs", !.target = pk, !.user = viewer,
                                    !.inst = BfsInit(pk) ]
               ELSE [ IdleTx EXCEPT !.pc = "walking", !.target = pk, !.user = viewer,
                                    !.head = pk, !.snap = {} ] ]
  /\ UNCHANGED <<rows, nupd>>

\* the walk without the test for a node seen before
WalkLoopNoSeen(p) ==
  /\ tx[p].pc = "walking"
  /\ tx' = [ tx EXCEPT ![p] =
               IF tx[p].head # 0
               THEN [ @ EXCEPT !.snap = @ \cup { tx[p].head },
                               !.head = rows[tx[p].head].pred ]
               ELSE [ @ EXCEPT !.pc = "bfs", !.inst = BfsInit(tx[p].target) ] ]
  /\ UNCHANGED <<rows, nupd>>

\* while n and n.id not in ancestor_ids: one iteration, or the exit
WalkLoop(p) ==
  /\ tx[p].pc = "walking"
  /\ tx' = [ tx EXCEPT ![p] =
               IF tx[p].head # 0 /\ tx[p].head \notin tx[p].snap
               THEN [ @ EXCEPT !.snap = @ \cup { tx[p].head },
                               !.head = rows[tx[p].head].pred ]
               ELSE [ @ EXCEPT !.pc = "bfs", !.inst = BfsInit(tx[p].target) ] ]
  /\ UNCHANGED <<rows, nupd>>

\* while q: one iteration (cur taken off the deque, its children without a
\* depth given one and appended), or the exit
BfsLoop(p) ==
  /\ tx[p].pc = "bfs"
  /\ LET b == tx[p].inst
         P == PatchesGiven(tx[p].target, tx[p].user, tx[p].snap)
     IN tx' = [ tx EXCEPT ![p] =
                  IF b.q # << >>
                  THEN LET cur == Head(b.q)
                           fresh == { cid \in children(P, cur) : cid \notin DOMAIN b.depth }
                       IN [ @ EXCEPT !.inst =
                              [ depth |-> [ k \in DOMAIN b.depth \cup fresh |->
                                              IF k \in DOMAIN b.depth THEN b.depth[k]
                                              ELSE b.depth[cur] + 1 ],
                                q |-> Tail(b.q) \o InOrder(fresh),
                                popped |-> b.popped \cup { cur } ] ]
                  ELSE [ @ EXCEPT !.pc = "ranked" ] ]
  /\ UNCHANGED <<rows, nupd>>

\* the rest of the handler after the depth pass: ranks, placement, edges
\* and nodes
Layout(p) ==
  /\ tx[p].pc = "ranked"
  /\ tx' = [ tx EXCEPT ![p] =
               [ @ EXCEPT !.pc = "responded",
                          !.resp = lineage_view(tx[p].target, tx[p].user) ] ]
  /\ UNCHANGED <<rows, nupd>>

\* ---------------------------------------------------------------- the codec
\* an index is encoded the way _finalise_edit / _finalise_fork encode it
Encode(p) ==
  /\ tx[p].pc = "index"
  /\ tx' = [ tx EXCEPT ![p] = [ @ EXCEPT !.pc = "segment", !.inst = to_base32(tx[p].next) ] ]
  /\ UNCHANGED <<rows, nupd>>

\* a segment is decoded by from_base32 and by the engine's int(s, 32), and
\* read as a version by utils.parse_version
Decode(p) ==
  /\ tx[p].pc = "segment"
  /\ tx' = [ tx EXCEPT ![p] =
               [ @ EXCEPT !.pc = "decoded",
                          !.resp = [ from_base32 |-> from_base32(tx[p].inst),
                                     int32 |-> int32(tx[p].inst),
                                     parse_version |-> utils_parse_version(tx[p].inst) ] ] ]
  /\ UNCHANGED <<rows, nupd>>

\* ---------------------------------------------------------------- specifications
\* the versioning engine under concurrent request handlers
Next ==
  \/ \E u \in Users : CreateRoot(u)
  \/ \E p \in Procs, s \in Ids, u \in Users, f \in BOOLEAN : Insert(p, s, u, f)
  \/ \E p \in Procs : ScanStart(p)
  \/ \E p \in Procs : ScanLock(p)
  \/ \E p \in Procs : Commit(p)
  \/ \E n \in Ids, u \in Users : SoftDelete(n, u)

Spec == Init /\ [][Next]_vars

NoneInFlight == \A q \in Procs : tx[q].self = 0

\* the engine with one derivation at a time
NextSeq ==
  \/ \E u \in Users : NoneInFlight /\ CreateRoot(u)
  \/ \E p \in Procs, s \in Ids, u \in Users, f \in BOOLEAN : NoneInFlight /\ Insert(p, s, u, f)
  \/ \E p \in Procs : ScanStart(p)
  \/ \E p \in Procs : ScanLock(p)
  \/ \E p \in Procs : Commit(p)
  \/ \E n \in Ids, u \in Users : NoneInFlight /\ SoftDelete(n, u)

SpecSeq == Init /\ [][NextSeq]_vars

\* the request handlers of views.py around the engine: derivations one at a
\* time, interleaved with post, unpost, soft delete and update requests
NextAPI ==
  \/ \E u \in Users : Len(rows) < MaxNodesAPI /\ CreateRoot(u)
  \/ \E p \in Procs, s \in Ids, u \in Users, f \in BOOLEAN :
        Len(rows) < MaxNodesAPI /\ NoneInFlight /\ Insert(p, s, u, f)
  \/ \E p \in Procs : ScanStart(p)
  \/ \E p \in Procs : ScanLock(p)
  \/ \E p \in Procs : Commit(p)
  \/ \E n \in Ids, u \in Users : SoftDelete(n, u)
  \/ \E n \in Ids, u \in Users : Post(n, u)
  \/ \E n \in Ids, u \in Users : Unpost(n, u)
  \/ \E p \in Procs, n \in Ids, u \in Users : UpdateLoad(p, n, u)
  \/ \E p \in Procs, d \in UpdateData : UpdateSave(p, d)

SpecAPI == Init /\ [][NextAPI]_vars

\* legacy data: one lineage whose rows carry versions the engine did not
\* allocate in sequence (gaps, repeated heads, a label without a dot)
LegacyVersions ==
  { << "1", ".", "0" >>, << "3", ".", "0" >>, << "1", ".", "1" >>,
    << "0", ".", "1" >>, << "1" >> }

LegacyRow(user, version, deleted) ==
  [ NewRow(user, 1, 1, 1, version, "committed", "legacy") EXCEPT !.is_deleted = deleted ]

LegacyRows ==
  { LegacyRow(u, v, d) : u \in Users, v \in LegacyVersions, d \in BOOLEAN }

InitLegacy ==
  /\ \E u \in Users, k \in 0..MaxLegacy :
        \E tail \in [ 1..k -> LegacyRows ] :
          rows = << NewRow(u, 1, 1, 0, DefaultVersion, "committed", "root") >> \o tail
  /\ tx = [ p \in Procs |-> IdleTx ]
  /\ nupd = 0

\* derivations, one at a time, over a lineage holding legacy rows
NextLegacy ==
  \/ \E p \in Procs, s \in Ids, u \in Users, f \in BOOLEAN : NoneInFlight /\ Insert(p, s, u, f)
  \/ \E p \in Procs : ScanStart(p)
  \/ \E p \in Procs : ScanLock(p)
  \/ \E p \in Procs : Commit(p)

SpecLegacy == InitLegacy /\ [][NextLegacy]_vars

\* no request is being handled
AllIdle == \A q \in Procs : tx[q].pc = "idle"

\* the requesters of a lineage graph: the users and an anonymous one
Viewers == Users \cup { 0 }

\* lineage graphs over stored lineages: a root and up to MaxGraphRows - 1
\* further rows of user 1 with good and malformed versions, present and
\* missing predecessors, deleted and posted flags
GraphVersions ==
  { << "0", ".", "1" >>, << "1", ".", "0" >>, << "1", ".", "1" >>, << "1" >> }

GraphRow(pred, version, deleted, posted) ==
  [ NewRow(1, 1, 1, pred, version, "committed", "legacy")
      EXCEPT !.is_deleted = deleted, !.is_posted = posted ]

GraphRows ==
  { GraphRow(q, v, d, o) :
      q \in 0..(MaxGraphRows - 1), v \in GraphVersions, d \in BOOLEAN, o \in BOOLEAN }

InitGraph ==
  /\ \E k \in 0..(MaxGraphRows - 1), d \in BOOLEAN, o \in BOOLEAN :
        \E tail \in [ 1..k -> GraphRows ] :
          /\ \A i \in 1..k : tail[i].pred <= i
          /\ rows = << [ NewRow(1, 1, 1, 0, DefaultVersion, "committed", "root")
                           EXCEPT !.is_deleted = d, !.is_posted = o ] >> \o tail
  /\ tx = [ p \in Procs |-> IdleTx ]
  /\ nupd = 0

NextGraph ==
  \/ \E p \in Procs, n \in Ids, v \in Viewers : AllIdle /\ LineageView(p, n, v)
  \/ \E p \in Procs : Respond(p)

SpecGraph == InitGraph /\ [][NextGraph]_vars

\* the engine with one request at a time and the lineage graph requests:
\* no deletes, posts or updates
NextE2E ==
  \/ \E u \in Users : AllIdle /\ CreateRoot(u)
  \/ \E p \in Procs, s \in Ids, u \in Users, f \in BOOLEAN : AllIdle /\ Insert(p, s, u, f)
  \/ \E p \in Procs : ScanStart(p)
  \/ \E p \in Procs : ScanLock(p)
  \/ \E p \in Procs : Commit(p)
  \/ \E p \in Procs, n \in Ids, v \in Viewers : AllIdle /\ LineageView(p, n, v)
  \/ \E p \in Procs : Respond(p)

SpecE2E == Init /\ [][NextE2E]_vars

\* the request handlers one at a time: derivations, soft deletes, posts
\* and lineage graph requests
NextView ==
  \/ \E u \in Users : Len(rows) < MaxNodesView /\ AllIdle /\ CreateRoot(u)
  \/ \E p \in Procs, s \in Ids, u \in Users, f \in BOOLEAN :
        Len(rows) < MaxNodesView /\ AllIdle /\ Insert(p, s, u, f)
  \/ \E p \in Procs : ScanStart(p)
  \/ \E p \in Procs : ScanLock(p)
  \/ \E p \in Procs : Commit(p)
  \/ \E n \in Ids, u \in Users : AllIdle /\ SoftDelete(n, u)
  \/ \E n \in Ids, u \in Users : AllIdle /\ Post(n, u)
  \/ \E p \in Procs, n \in Ids, v \in Viewers : AllIdle /\ LineageView(p, n, v)
  \/ \E p \in Procs : Respond(p)

SpecView == Init /\ [][NextView]_vars

\* the engine with one derivation at a time, any of which may fail
NextAbort ==
  \/ \E u \in Users : NoneInFlight /\ CreateRoot(u)
  \/ \E p \in Procs, s \in Ids, u \in Users, f \in BOOLEAN : NoneInFlight /\ Insert(p, s, u, f)
  \/ \E p \in Procs : ScanStart(p)
  \/ \E p \in Procs : ScanLock(p)
  \/ \E p \in Procs : Commit(p)
  \/ \E p \in Procs : Abort(p)
  \/ \E n \in Ids, u \in Users : NoneInFlight /\ SoftDelete(n, u)

SpecAbort == Init /\ [][NextAbort]_vars

\* ids a request can name: the stored ones and one that was never stored
RequestIds == 1..(MaxNodesView + 1)

\* create and fork requests through the serializers, one request at a time
NextCreate ==
  \/ \E u \in Users : Len(rows) < MaxNodesView /\ AllIdle /\ CreateRoot(u)
  \/ \E p \in Procs, s \in RequestIds, u \in Users :
        Len(rows) < MaxNodesView /\ AllIdle /\ Create(p, s, u)
  \/ \E p \in Procs, s \in RequestIds, u \in Users :
        Len(rows) < MaxNodesView /\ AllIdle /\ ForkTrack(p, s, u)
  \/ \E p \in Procs : ScanStart(p)
  \/ \E p \in Procs : ScanLock(p)
  \/ \E p \in Procs : Commit(p)
  \/ \E p \in Procs : Abort(p)
  \/ \E p \in Procs : RespondError(p)
  \/ \E n \in Ids, u \in Users : AllIdle /\ SoftDelete(n, u)

SpecCreate == Init /\ [][NextCreate]_vars

\* the request handlers one at a time, with graph requests for stored ids
\* and for an id never stored
NextRead ==
  \/ \E u \in Users : Len(rows) < MaxNodesView /\ AllIdle /\ CreateRoot(u)
  \/ \E p \in Procs, s \in Ids, u \in Users, f \in BOOLEAN :
        Len(rows) < MaxNodesView /\ AllIdle /\ Insert(p, s, u, f)
  \/ \E p \in Procs : ScanStart(p)
  \/ \E p \in Procs : ScanLock(p)
  \/ \E p \in Procs : Commit(p)
  \/ \E n \in Ids, u \in Users : AllIdle /\ SoftDelete(n, u)
  \/ \E n \in Ids, u \in Users : AllIdle /\ Post(n, u)
  \/ \E p \in Procs, n \in RequestIds, v \in Viewers : AllIdle /\ LineageView(p, n, v)
  \/ \E p \in Procs : Respond(p)
  \/ \E p \in Procs : RespondError(p)

SpecRead == Init /\ [][NextRead]_vars

\* tracks derived through fork_track only, one request at a time
NextForkTrack ==
  \/ \E u \in Users : Len(rows) < MaxNodesView /\ AllIdle /\ CreateRoot(u)
  \/ \E p \in Procs, s \in RequestIds, u \in Users :
        Len(rows) < MaxNodesView /\ AllIdle /\ ForkTrack(p, s, u)
  \/ \E p \in Procs : ScanStart(p)
  \/ \E p \in Procs : ScanLock(p)
  \/ \E p \in Procs : Commit(p)
  \/ \E p \in Procs : RespondError(p)
  \/ \E n \in Ids, u \in Users : AllIdle /\ SoftDelete(n, u)

SpecForkTrack == Init /\ [][NextForkTrack]_vars

\* the request handlers one at a time: derivations, soft deletes and update
\* requests
NextRestore ==
  \/ \E u \in Users : Len(rows) < MaxNodesAPI /\ AllIdle /\ CreateRoot(u)
  \/ \E p \in Procs, s \in Ids, u \in Users, f \in BOOLEAN :
        Len(rows) < MaxNodesAPI /\ AllIdle /\ Insert(p, s, u, f)
  \/ \E p \in Procs : ScanStart(p)
  \/ \E p \in Procs : ScanLock(p)
  \/ \E p \in Procs : Commit(p)
  \/ \E n \in Ids, u \in Users : AllIdle /\ SoftDelete(n, u)
  \/ \E p \in Procs, n \in Ids, u \in Users, d \in RequestData : AllIdle /\ Update(p, n, u, d)
  \/ \E p \in Procs : RespondUpdated(p)

SpecRestore == Init /\ [][NextRestore]_vars

\* concurrent derivations, any of which may fail, until the store holds
\* MaxNodesView rows
NextLive ==
  \/ \E u \in Users : Len(rows) < MaxNodesView /\ CreateRoot(u)
  \/ \E p \in Procs, s \in Ids, u \in Users, f \in BOOLEAN :
        Len(rows) < MaxNodesView /\ Insert(p, s, u, f)
  \/ \E p \in Procs : ScanStart(p)
  \/ \E p \in Procs : ScanLock(p)
  \/ \E p \in Procs : Commit(p)
  \/ \E p \in Procs : Abort(p)

\* a handler inside save() runs on: it starts its locking read and commits
\* once it holds its locks (weak fairness), and the lock manager grants the
\* row locks to a waiting read once they are free (strong fairness).  No
\* fairness is put on failures.
SpecLive ==
  /\ Init /\ [][NextLive]_vars
  /\ \A p \in Procs : WF_vars(ScanStart(p) \/ Commit(p))
  /\ \A p \in Procs : SF_vars(ScanLock(p))

\* the codec over the indices 0..MaxIndex and over the strings of up to
\* MaxStrLen characters of CodecChars
CodecChars == { "0", "1", "a", "v", "A", "V", "w", "." }

CodecStrings == UNION { [ 1..k -> CodecChars ] : k \in 0..MaxStrLen }

InitCodec ==
  /\ rows = << >>
  /\ nupd = 0
  /\ \/ \E n \in 0..MaxIndex :
          tx = [ p \in Procs |-> IF p = 1
                                 THEN [ IdleTx EXCEPT !.pc = "index", !.kind = "index", !.next = n ]
                                 ELSE IdleTx ]
     \/ \E s \in CodecStrings :
          tx = [ p \in Procs |-> IF p = 1
                                 THEN [ IdleTx EXCEPT !.pc = "segment", !.kind = "segment", !.inst = s ]
                                 ELSE IdleTx ]

NextCodec ==
  \/ \E p \in Procs : Encode(p)
  \/ \E p \in Procs : Decode(p)

SpecCodec == InitCodec /\ [][NextCodec]_vars

\* lineage graphs over stored lineages whose rows carry version strings
\* that do not parse: empty, no dot, an empty segment, a character that is
\* no base-32 digit, a second dot
MalformedVersions ==
  { << >>, << "1" >>, << "1", "." >>, << ".", "1" >>, << "1", ".", "w" >>,
    << "w", ".", "1" >>, << "1", ".", "1", ".", "1" >> }

MalformedRows ==
  { [ NewRow(1, 1, 1, q, v, "committed", "legacy") EXCEPT !.is_posted = o ] :
      q \in 0..(MaxGraphRows - 1),
      v \in MalformedVersions \cup { << "0", ".", "1" >>, << "1", ".", "0" >> },
      o \in BOOLEAN }

InitMalformed ==
  /\ \E k \in 0..(MaxGraphRows - 1) :
        \E tail \in [ 1..k -> MalformedRows ] :
          /\ \A i \in 1..k : tail[i].pred <= i
          /\ rows = << NewRow(1, 1, 1, 0, DefaultVersion, "committed", "root") >> \o tail
  /\ tx = [ p \in Procs |-> IdleTx ]
  /\ nupd = 0

SpecMalformed == InitMalformed /\ [][NextGraph]_vars

\* stored predecessor relations of every shape: chains, missing
\* predecessors, nodes that are their own predecessor, cycles through the
\* root or beside it
WalkRows ==
  { [ NewRow(1, 1, 1, q, << "0", ".", "1" >>, "committed", "legacy")
        EXCEPT !.is_posted = o ] :
      q \in 0..MaxGraphRows, o \in BOOLEAN }

InitWalk ==
  /\ \E k \in 0..(MaxGraphRows - 1), q \in 0..MaxGraphRows :
        \E tail \in [ 1..k -> WalkRows ] :
          /\ q <= k + 1
          /\ \A i \in 1..k : tail[i].pred <= k + 1
          /\ rows = << [ NewRow(1, 1, 1, q, DefaultVersion, "committed", "root")
                           EXCEPT !.is_posted = TRUE ] >> \o tail
  /\ tx = [ p \in Procs |-> IdleTx ]
  /\ nupd = 0

NextWalk ==
  \/ \E p \in Procs, n \in Ids, v \in Viewers : AllIdle /\ WalkStart(p, n, v)
  \/ \E p \in Procs : WalkLoop(p)
  \/ \E p \in Procs : BfsLoop(p)
  \/ \E p \in Procs : Layout(p)
  \/ \E p \in Procs : Respond(p)

\* a handler that is in a loop gets to run its next iteration
SpecWalk ==
  InitWalk /\ [][NextWalk]_vars /\ \A p \in Procs : WF_vars(WalkLoop(p) \/ BfsLoop(p))

\* ---------------------------------------------------------------- properties
SameLineage(a, b) == rows[a].root = rows[b].root

\* the two derivations were in flight at the same time
Overlapped(a, b) == b \in rows[a].overlap \/ a \in rows[b].overlap

ForkNodes == { i \in Committed : rows[i].via = "fork" }

EditNodes == { i \in Committed : rows[i].via = "edit" }

ForkSeg(i) == ForkStr(rows[i].version)

\* a step in which handler p commits a derivation of the given kind
Commits(p, kind) == tx[p].pc = "locked" /\ tx[p].kind = kind /\ tx'[p].pc = "idle"

\* C1: after any sequence of createRoot, edit, fork and soft-delete
\* operations, no two nodes sharing a root_id (soft-deleted ones included)
\* hold the same version string.
C1_UniqueVersions ==
  \A a, b \in Committed :
    (a # b /\ SameLineage(a, b)) => rows[a].version # rows[b].version

\* C2: two fork derivations under the same root that run concurrently end
\* with different fork segments, in every interleaving.
C2_ConcurrentForksDistinct ==
  \A a, b \in ForkNodes :
    (a # b /\ SameLineage(a, b) /\ Overlapped(a, b)) => ForkSeg(a) # ForkSeg(b)

\* C3: under a fork head a.0 owned by U, the first edit by U is a.1, and two
\* edits by U under fork a (concurrent or not) are a.1 and a.2, never both
\* a.1.  Stated for fork segments none of whose nodes is soft-deleted.
C3_EditSequencing ==
  \A h \in ForkNodes :
    LET f == ForkSeg(h)
        E == { i \in EditNodes : /\ SameLineage(i, h)
                                 /\ rows[i].owner = rows[h].owner
                                 /\ ForkSeg(i) = f }
        labels == { rows[i].version : i \in E }
    IN (\A i \in E \cup {h} : ~rows[i].is_deleted) =>
         /\ Cardinality(E) = 1 => labels = { MakeVersion(f, << "1" >>) }
         /\ Cardinality(E) = 2 => labels = { MakeVersion(f, << "1" >>), MakeVersion(f, << "2" >>) }

\* C4: createRoot always yields version "0.0", root_id = stem_id = its own
\* id and predecessor_id = null, whatever other lineages exist.
C4_RootInvariant ==
  \A i \in Committed :
    rows[i].via = "root" =>
      /\ rows[i].version = << "0", ".", "0" >>
      /\ rows[i].root = i
      /\ rows[i].stem = i
      /\ rows[i].pred = 0

C4_Witness ==
  \E i, j \in Committed :
    /\ i < j
    /\ rows[i].via = "root"
    /\ rows[j].via = "root"
    /\ \E k \in Committed : k < j /\ rows[k].via = "fork" /\ rows[k].root = i

\* C5: a fork receives encode(k).0 with k = 1 + the maximum decoded fork
\* segment over all nodes under the root whose edit segment is "0",
\* soft-deleted ones included; gaps are never filled.
C5_ForkIndex ==
  [][ \A p \in Procs :
        Commits(p, "fork") =>
          LET heads == { i \in Committed : /\ rows[i].root = tx[p].root
                                           /\ HasDot(rows[i].version)
                                           /\ EditStr(rows[i].version) = << "0" >> }
              k == 1 + SetMax({ IntBase32(ForkSeg(i)) : i \in heads })
          IN rows'[tx[p].self].version = to_base32(k) \o << ".", "0" >> ]_vars

\* heads 0.0, 1.0, 3.0 (3.0 soft-deleted or not) and the next fork is 4.0
C5_Witness ==
  \E a, b, c \in Committed :
    /\ rows[a].version = << "1", ".", "0" >>
    /\ rows[b].version = << "3", ".", "0" >>
    /\ rows[c].version = << "4", ".", "0" >>
    /\ rows[c].via = "fork"
    /\ rows[b].is_deleted
    /\ SameLineage(a, c) /\ SameLineage(b, c)

\* C6: an edit of a source with fork segment f by owner U receives
\* f.encode(e), e = 1 + the maximum decoded edit segment over all nodes under
\* the root, soft-deleted or not, owned by U with fork segment f (0 if none).
C6_EditIndexAllNodes ==
  [][ \A p \in Procs :
        Commits(p, "edit") =>
          LET f == ForkStr(tx[p].srcVersion)
              mine == { i \in Committed : /\ rows[i].root = tx[p].root
                                          /\ rows[i].owner = tx[p].user
                                          /\ HasDot(rows[i].version)
                                          /\ ForkSeg(i) = f }
              e == 1 + SetMax({ _parse_version(rows[i].version)[2] : i \in mine } \cup {0})
          IN rows'[tx[p].self].version = MakeVersion(f, to_base32(e)) ]_vars

\* C7: a derivation from X by owner O is an edit (X's fork segment, edit
\* segment >= 1) exactly when O owns X and forceFork is false; otherwise it
\* is a fork with a fork head version k.0, k >= 1, off X's fork segment.
C7_EditOrFork ==
  [][ \A p \in Procs :
        (tx[p].pc = "locked" /\ tx'[p].pc = "idle") =>
          LET n == rows'[tx[p].self]
              X == rows[tx[p].src]
          IN IF n.owner = X.owner /\ ~tx[p].force
             THEN /\ ForkStr(n.version) = ForkStr(X.version)
                  /\ _parse_version(n.version)[2] >= 1
                  /\ n.via = "edit"
             ELSE /\ EditStr(n.version) = << "0" >>
                  /\ _parse_version(n.version)[1] >= 1
                  /\ ForkStr(n.version) # ForkStr(X.version)
                  /\ n.via = "fork" ]_vars

\* an edit, a forced fork by the source's owner and a fork by another user
C7_Witness ==
  /\ \E i \in EditNodes : rows[i].owner = rows[rows[i].src].owner
  /\ \E i \in ForkNodes : rows[i].owner = rows[rows[i].src].owner
  /\ \E i \in ForkNodes : rows[i].owner # rows[rows[i].src].owner

ForksTakenFrom(n) == { c \in ForkNodes : rows[c].src = n }

\* C8: in every reachable state the fork counter of each node equals the
\* number of nodes created by the fork path with that node as source.
C8_ForkCounterExact ==
  \A n \in Committed : rows[n].forks = Cardinality(ForksTakenFrom(n))

\* C9: two forks taken concurrently from the same source lose no increment:
\* once both have committed the counter has grown by 2 over what either
\* handler loaded, and counts every fork taken.
C9_NoLostIncrement ==
  \A a, b \in ForkNodes :
    (a # b /\ rows[a].src = rows[b].src /\ Overlapped(a, b)) =>
      LET s == rows[a].src IN
        /\ rows[s].forks >= rows[a].seen + 2
        /\ rows[s].forks >= rows[b].seen + 2
        /\ rows[s].forks = Cardinality(ForksTakenFrom(s))

C9_Witness ==
  \E a, b \in ForkNodes :
    /\ a # b /\ rows[a].src = rows[b].src /\ Overlapped(a, b)
    /\ rows[a].seen = 0 /\ rows[b].seen = 0
    /\ rows[rows[a].src].forks = 2
    /\ rows[rows[a].src].is_deleted

\* C10: the fork counter of a node never decreases, in any interleaving of
\* forks with soft-delete, post/unpost and update requests on the node.
C10_ForksNeverDecrease ==
  [][ \A n \in Ids : rows'[n].forks >= rows[n].forks ]_vars

\* the columns of row n as a record
ColumnsOf(n) == [ c \in Columns |-> rows[n][c] ]

\* C11: once a node's creation is finalized, its root_id, version and
\* predecessor_id keep their values in every later state, whatever
\* operations follow (derivations, soft-delete, post/unpost, updates).
C11_LineageFieldsFrozen ==
  [][ \A n \in Committed :
        /\ rows'[n].root = rows[n].root
        /\ rows'[n].version = rows[n].version
        /\ rows'[n].pred = rows[n].pred ]_vars

\* walking predecessor_id from n reaches root r without repeating a node
RECURSIVE ReachesRoot(_, _, _)
ReachesRoot(n, r, seen) ==
  IF n = r THEN TRUE
  ELSE IF n \in seen \/ n \notin Committed THEN FALSE
  ELSE ReachesRoot(rows[n].pred, r, seen \cup {n})

\* C12: in every reachable state the nodes sharing a root_id form one tree
\* over predecessor_id edges, rooted at the node whose id is root_id.
C12_LineageTree ==
  \A n \in Committed :
    LET r == rows[n].root IN
      /\ r \in Committed
      /\ rows[r].root = r
      /\ n # r => /\ rows[n].pred \in Committed
                   /\ rows[rows[n].pred].root = r
      /\ ReachesRoot(n, r, {})

\* C13: in every reachable state, every fork segment f used under a root
\* has exactly one node f.0 under that root; for f = 0 it is the root; no
\* edit is labelled x.0.
C13_OneHeadPerSegment ==
  /\ \A n \in Committed :
        HasDot(rows[n].version) =>
          LET heads == { h \in Committed : /\ SameLineage(h, n)
                                           /\ rows[h].version = MakeVersion(ForkSeg(n), << "0" >>) }
          IN /\ Cardinality(heads) = 1
             /\ ForkSeg(n) = << "0" >> => heads = { rows[n].root }
  /\ \A n \in EditNodes : EditStr(rows[n].version) # << "0" >>

\* C14: after finalization a fork node's stem_id is its own id, and an edit
\* node's stem_id is the id of a node holding version f.0 under the root,
\* f being the fork segment of the edited source (the root itself when
\* f = 0); in both cases predecessor_id is the id of the source node.
C14_StemAndPredecessor ==
  [][ \A p \in Procs :
        (tx[p].pc = "locked" /\ tx'[p].pc = "idle") =>
          LET n == rows'[tx[p].self]
              f == ForkStr(rows[tx[p].src].version)
          IN /\ n.pred = tx[p].src
             /\ IF tx[p].kind = "fork"
                THEN n.stem = tx[p].self
                ELSE /\ n.stem \in Committed
                     /\ rows[n.stem].version = MakeVersion(f, << "0" >>)
                     /\ f = << "0" >> => n.stem = n.root
                     /\ f # << "0" >> => rows[n.stem].root = n.root ]_vars

\* a fork anchoring itself, an edit off the root's segment anchored at its
\* fork head, and an edit in the root's segment anchored at the root
C14_Witness ==
  /\ \E i \in ForkNodes : rows[i].stem = i /\ rows[i].pred = rows[i].src
  /\ \E i \in EditNodes : /\ ForkSeg(i) # << "0" >>
                          /\ rows[i].stem \in ForkNodes
                          /\ rows[i].stem # rows[i].root
                          /\ rows[i].pred = rows[i].src
  /\ \E i \in EditNodes : ForkSeg(i) = << "0" >> /\ rows[i].stem = rows[i].root

\* handler p resolves the fork head of an edit in a fork segment other
\* than 0
ResolvesHead(p) ==
  /\ tx[p].pc = "inserted" /\ tx[p].kind = "edit" /\ tx'[p].pc = "scanning"
  /\ ForkStr(tx[p].srcVersion) # << "0" >>

\* the nodes of the root holding f.0 and the non-deleted nodes of segment f
HeadsOf(root, f) ==
  { i \in Committed : rows[i].root = root /\ rows[i].version = MakeVersion(f, << "0" >>) }

RemainingOf(root, f) ==
  { i \in Committed : /\ rows[i].root = root /\ ~rows[i].is_deleted
                      /\ HasDot(rows[i].version) /\ ForkSeg(i) = f }

HeadSoftDeleted(root, f) ==
  /\ HeadsOf(root, f) # {}
  /\ \A h \in HeadsOf(root, f) : rows[h].is_deleted

\* C15 as stated: when the fork head f.0 (f not 0) is soft-deleted and
\* other nodes with fork segment f remain, fork-head resolution for an edit
\* in fork f selects the earliest-created remaining node with fork segment
\* f, and never the root.
C15_EarliestRemaining ==
  [][ \A p \in Procs :
        LET f == ForkStr(tx[p].srcVersion)
            rem == RemainingOf(tx[p].root, f)
        IN (ResolvesHead(p) /\ HeadSoftDeleted(tx[p].root, f) /\ rem # {}) =>
             /\ tx'[p].head = CHOOSE i \in rem : \A j \in rem : i <= j
             /\ tx'[p].head # tx[p].root ]_vars

\* C15: when the fork head f.0 (f not 0) is soft-deleted, fork-head
\* resolution for an edit in fork f still selects the soft-deleted node
\* holding f.0, not a remaining node of the segment, and never the root.
C15_DeletedHeadKept ==
  [][ \A p \in Procs :
        LET f == ForkStr(tx[p].srcVersion) IN
          (ResolvesHead(p) /\ HeadSoftDeleted(tx[p].root, f)) =>
            /\ tx'[p].head \in HeadsOf(tx[p].root, f)
            /\ rows[tx'[p].head].is_deleted
            /\ tx'[p].head \notin RemainingOf(tx[p].root, f)
            /\ tx'[p].head # tx[p].root ]_vars

\* an edit in fork f committed with the soft-deleted head as its stem while
\* its source, a later node of segment f, is not deleted
C15_Witness ==
  \E i \in EditNodes :
    /\ ForkSeg(i) # << "0" >>
    /\ rows[rows[i].stem].is_deleted
    /\ rows[rows[i].stem].version = MakeVersion(ForkSeg(i), << "0" >>)
    /\ rows[i].src # rows[i].stem
    /\ ~rows[rows[i].src].is_deleted
    /\ rows[i].src \in RemainingOf(rows[i].root, ForkSeg(i))

\* the handlers holding a lineage graph
Responded == { p \in Procs : tx[p].pc = "responded" }

\* C16: in every lineage graph produced, for any visible node set
\* (malformed versions, missing predecessors and soft-deleted nodes
\* included), no two nodes with the same x have the same y.
C16_NoCollision ==
  \A p \in Responded :
    \A a, b \in tx[p].resp.nodes :
      (a.id # b.id /\ a.x = b.x) => a.y # b.y

\* a graph in which a column holds three nodes, one of them soft-deleted,
\* one with a malformed version and one without a predecessor
C16_Witness ==
  \E p \in Responded :
    \E a, b, c \in tx[p].resp.nodes :
      /\ a.id # b.id /\ b.id # c.id /\ a.id # c.id
      /\ a.x = b.x /\ b.x = c.x
      /\ a.is_deleted
      /\ ~HasDot(b.version)
      /\ rows[c.id].pred = 0 /\ c.id # 1

\* Alice created root R (node 1) and edited it (node 2), Bob forked R
\* (node 3) and edited the fork (node 4)
E2EScenario ==
  /\ Len(rows) = 4 /\ Committed = 1..4
  /\ rows[1].via = "root"
  /\ rows[2].via = "edit" /\ rows[2].src = 1 /\ rows[2].owner = rows[1].owner
  /\ rows[3].via = "fork" /\ rows[3].src = 1 /\ rows[3].owner # rows[1].owner
  /\ rows[4].via = "edit" /\ rows[4].src = 3 /\ rows[4].owner = rows[3].owner

\* the graph of the scenario: 4 nodes, the 3 edges, columns {0, 1}, and
\* 1.0 and 1.1 in column 1 at distinct rows
E2EGraph(g) ==
  /\ { n.id : n \in g.nodes } = 1..4
  /\ Cardinality(g.nodes) = 4
  /\ g.edges = { << 1, 2 >>, << 1, 3 >>, << 3, 4 >> }
  /\ { n.column : n \in g.nodes } = { 0, 1 }
  /\ \A a, b \in g.nodes :
       (a.id = 3 /\ b.id = 4) => /\ a.column = 1 /\ b.column = 1
                                 /\ a.x = b.x /\ a.y # b.y

E2EVersions ==
  /\ rows[1].version = << "0", ".", "0" >>
  /\ rows[2].version = << "0", ".", "1" >>
  /\ rows[3].version = << "1", ".", "0" >>
  /\ rows[4].version = << "1", ".", "1" >>
  /\ rows[1].forks = 1

\* C17 as stated: after Alice creates root R, Alice edits R (0.1), Bob
\* forks R (1.0) and Bob edits 1.0 (1.1), R's fork counter is 1 and the
\* lineage graph, for any viewer and any inspected node of the lineage, has
\* 4 nodes and exactly the 3 edges R->0.1, R->1.0, 1.0->1.1, with columns
\* {0, 1} and with 1.0 and 1.1 in column 1 at distinct rows.
C17_EndToEndAnyViewer ==
  E2EScenario =>
    /\ E2EVersions
    /\ \A p \in Responded : E2EGraph(tx[p].resp)

\* C17: the same, for a viewer who owns the inspected node.
C17_EndToEndOwner ==
  E2EScenario =>
    /\ E2EVersions
    /\ \A p \in Responded :
         tx[p].user = rows[tx[p].target].owner => E2EGraph(tx[p].resp)

\* Bob holds the graph of his node 1.1 after the four operations
C17_Witness ==
  /\ E2EScenario
  /\ \E p \in Responded : tx[p].target = 4 /\ tx[p].user = rows[4].owner

\* the ids listed in a lineage graph
Listed(g) == { n.id : n \in g.nodes }

\* the nodes sharing the root_id of node n
LineageOf(n) == { i \in Committed : rows[i].root = rows[n].root }

\* C18: when the requester owns the inspected node, the graph's node list
\* contains every node sharing the inspected node's root_id, soft-deleted
\* nodes included, whatever nodes of the lineage (the root among them) are
\* soft-deleted.
C18_OwnerSeesLineage ==
  \A p \in Responded :
    tx[p].user = rows[tx[p].target].owner =>
      LineageOf(tx[p].target) \subseteq Listed(tx[p].resp)

\* C19, taken for the lineages whose root is not soft-deleted: when the
\* requester does not own the inspected node, the graph's node list is
\* exactly the non-deleted posted nodes of the lineage together with every
\* node on the predecessor path from the inspected node back to the root;
\* no soft-deleted node off that path is listed.
C19_OthersSeePostedAndPath ==
  \A p \in Responded :
    LET pk == tx[p].target IN
      (tx[p].user # rows[pk].owner /\ ~rows[rows[pk].root].is_deleted) =>
        LET path == Ancestors(pk, {})
            posted == { i \in LineageOf(pk) : rows[i].is_posted /\ ~rows[i].is_deleted }
        IN /\ Listed(tx[p].resp) = posted \cup path
           /\ \A i \in Listed(tx[p].resp) : rows[i].is_deleted => i \in path

\* C20: a derivation whose version assignment fails leaves the store as
\* before the derivation: no step of a derivation before its commit changes
\* a committed row, and after the failure no new node row exists and the
\* source's fork counter is the one the derivation started from.
C20_AllOrNothing ==
  [][ \A p \in Procs :
        (tx[p].self # 0 /\ rows'[tx[p].self].via = "none") =>
          /\ \A i \in Committed : rows'[i] = rows[i]
          /\ tx'[p].pc = "idle" =>
               /\ { i \in 1..Len(rows') : rows'[i].st = "committed" } = Committed
               /\ tx[p].self \notin Committed
               /\ rows'[tx[p].src].forks = tx[p].srcForks ]_vars

\* a fork by another user failed and an edit failed; the fork's source
\* still has no fork
C20_Witness ==
  /\ \E i \in Ids : /\ rows[i].st = "aborted"
                    /\ rows[i].owner # rows[rows[i].src].owner
                    /\ rows[rows[i].src].forks = 0
  /\ \E i \in Ids : /\ rows[i].st = "aborted"
                    /\ rows[i].owner = rows[rows[i].src].owner

Decoded == { p \in Procs : tx[p].pc = "decoded" }

\* C22: for every integer n with 0 <= n < 10000, from_base32(to_base32(n))
\* = n, to_base32(0) = "0", and to_base32(n) has no leading "0" for n > 0;
\* the same holds when the encoded string is decoded by the engine's
\* base-32 integer parse.
C22_CodecRoundTrip ==
  \A p \in Decoded :
    tx[p].kind = "index" =>
      /\ tx[p].resp.from_base32 = tx[p].next
      /\ tx[p].resp.int32 = tx[p].next
      /\ tx[p].next = 0 => tx[p].inst = << "0" >>
      /\ tx[p].next > 0 => (Len(tx[p].inst) > 0 /\ tx[p].inst[1] # "0")

\* the largest index has been encoded, to three digits, and decoded
C22_Witness ==
  \E p \in Decoded :
    /\ tx[p].kind = "index"
    /\ tx[p].next = MaxIndex
    /\ Len(tx[p].inst) = 3

\* the letters of a string folded to lower case
Lower(s) ==
  [ i \in 1..Len(s) |->
      IF \E k \in 1..32 : UPPER32[k] = s[i]
      THEN BASE32_ALPHABET[CHOOSE k \in 1..32 : UPPER32[k] = s[i]]
      ELSE s[i] ]

\* C23: decode fails with an invalid-digit error exactly when the string is
\* empty or contains a character outside the alphabet 0-9a-v taken
\* case-insensitively; an uppercase string decodes to the same integer as
\* its lowercase form.
C23_DecodeErrors ==
  \A p \in Decoded :
    tx[p].kind = "segment" =>
      LET s == tx[p].inst IN
        /\ tx[p].resp.from_base32 = ValueError <=>
             (Len(s) = 0 \/ \E i \in 1..Len(s) : ~InAlphabet(Lower(s)[i]))
        /\ tx[p].resp.from_base32 = from_base32(Lower(s))

\* C24: soft-deleting a node changes only that node's is_deleted flag: its
\* version, root_id, stem_id, predecessor_id and fork counter, and every
\* field of every other node, are unchanged.
C24_SoftDeleteFrame ==
  [][ \A n \in Committed :
        (~rows[n].is_deleted /\ rows'[n].is_deleted) =>
          rows' = [ rows EXCEPT ![n].is_deleted = TRUE ] ]_vars

\* a fork head whose source counts it, and a node that has been forked, are
\* soft-deleted
C24_Witness ==
  /\ \E m \in ForkNodes : rows[m].is_deleted /\ rows[rows[m].src].forks >= 1
  /\ \E n \in Committed : rows[n].is_deleted /\ rows[n].forks >= 1

C26_LockWholeLineage ==
  \A p \in Procs :
    tx[p].pc = "locked" =>
      { i \in Committed : rows[i].root = tx[p].root } \subseteq tx[p].locked

\* C27: if the nominal root is soft-deleted and at least one non-deleted
\* node shares its root_id, the oldest such node is the depth-0 anchor of
\* the traversal; if none exists the deleted root is; in both cases the
\* graph is built over the visible nodes of the nominal root's lineage
\* (all of them for the owner of the inspected node, the posted ones and
\* the inspected node's predecessor path for another requester).
C27_RootResolution ==
  \A p \in Responded :
    LET pk == tx[p].target
        nominal == rows[pk].root
        living == { i \in LineageOf(pk) : ~rows[i].is_deleted }
        anchor == IF rows[nominal].is_deleted /\ living # {} THEN SetMin(living) ELSE nominal
        visible == IF tx[p].user = rows[pk].owner THEN LineageOf(pk)
                   ELSE { i \in LineageOf(pk) : rows[i].is_posted \/ i \in Ancestors(pk, {}) }
    IN /\ EffectiveRoot(pk) = anchor
       /\ Listed(tx[p].resp) = visible

\* C28: the edge list of a lineage graph is exactly the set of pairs
\* (n.predecessor_id, n.id) over the listed nodes n whose predecessor is
\* also a listed node; no edge has an endpoint missing from the node list,
\* and every listed node has coordinates.
C28_EdgeList ==
  \A p \in Responded :
    LET g == tx[p].resp
        ids == Listed(g)
    IN /\ g.edges = { << rows[n].pred, n >> : n \in { m \in ids : rows[m].pred \in ids } }
       /\ \A e \in g.edges : e[1] \in ids /\ e[2] \in ids
       /\ \A n \in ids : \E m \in g.nodes : m.id = n /\ m.x \in Int /\ m.y \in Int

\* a graph of three nodes with one edge: the third node, not the root, has
\* no predecessor and no edge
C28_Witness ==
  \E p \in Responded :
    LET ids == Listed(tx[p].resp) IN
      /\ Cardinality(ids) = 3
      /\ Cardinality(tx[p].resp.edges) = 1
      /\ \E n \in ids : n # 1 /\ rows[n].pred = 0

\* the row a node was given, and the rows given to the nodes of its column
\* placed before it
RowOf(m) == (Y0 - m.y) \div ROW_GAP

RowsBefore(g, n) == { RowOf(m) : m \in { k \in g.nodes : k.column = n.column /\ k.id < n.id } }

\* max(depth + max(0, siblingRank - 1), chronoRank) of a listed node
CandidateRow(g, root_id, n) ==
  Max2(base_d(Listed(g), root_id, n.id) + Max2(0, n.sibling_rank - 1),
       Cardinality({ k \in g.nodes : k.column = n.column /\ k.id < n.id }))

\* C29: nodes are placed in order of (fork segment, created_at, id); each
\* node gets x = X0 + forkSegment * COLUMN_GAP and y = Y0 - row * ROW_GAP,
\* where row is the smallest row not yet taken in its column that is >=
\* max(depth + max(0, siblingRank - 1), chronoRank), depth being the
\* breadth-first distance from the root over predecessor edges and 0 for
\* nodes unreachable from the root.
C29_Coordinates ==
  \A p \in Responded :
    LET g == tx[p].resp
        root_id == EffectiveRoot(tx[p].target)
    IN \A n \in g.nodes :
         LET cand == CandidateRow(g, root_id, n) IN
           /\ n.column = parse_version(n.version)[1]
           /\ n.x = X0 + n.column * COL_GAP
           /\ n.y = Y0 - RowOf(n) * ROW_GAP
           /\ RowOf(n) >= cand
           /\ RowOf(n) \notin RowsBefore(g, n)
           /\ \A r \in cand..(RowOf(n) - 1) : r \in RowsBefore(g, n)

\* a graph in which a node sits above its candidate row because that row
\* was taken, the candidate being its chronological rank
C29_Witness ==
  \E p \in Responded :
    LET g == tx[p].resp
        root_id == EffectiveRoot(tx[p].target)
    IN \E n \in g.nodes :
         /\ RowOf(n) > CandidateRow(g, root_id, n)
         /\ CandidateRow(g, root_id, n)
              > base_d(Listed(g), root_id, n.id) + Max2(0, n.sibling_rank - 1)

\* the listed children of node q whose fork segment is f
ChildGroup(g, q, f) ==
  { n \in g.nodes : rows[n.id].pred = q /\ n.column = f }

\* the edit segment of a listed node
EditIdx(n) == parse_version(n.version)[2]

\* C30: sibling rank numbers the direct children of each node 1..k within
\* each group of children having the same fork segment, ordered by (edit
\* segment, created_at, id), the root's sibling rank being 0; chronological
\* rank numbers all visible nodes of one fork segment 0..m-1 by
\* (created_at, id), independently of the tree.
C30_Ranks ==
  \A p \in Responded :
    LET g == tx[p].resp
        ids == Listed(g)
        root_id == EffectiveRoot(tx[p].target)
    IN /\ \A q \in ids, f \in { n.column : n \in g.nodes } :
            LET K == ChildGroup(g, q, f) IN
              /\ { n.sibling_rank : n \in K } = 1..Cardinality(K)
              /\ \A a, b \in K :
                   a.sibling_rank < b.sibling_rank <=>
                     \/ EditIdx(a) < EditIdx(b)
                     \/ EditIdx(a) = EditIdx(b) /\ a.id < b.id
       /\ \A n \in g.nodes : (n.id = root_id /\ rows[n.id].pred \notin ids) => n.sibling_rank = 0
       /\ \A f \in { n.column : n \in g.nodes } :
            LET G == { n.id : n \in { m \in g.nodes : m.column = f } } IN
              /\ { chrono_rank(ids, n) : n \in G } = 0..(Cardinality(G) - 1)
              /\ \A a, b \in G : chrono_rank(ids, a) < chrono_rank(ids, b) <=> a < b

\* the root with two children of one fork segment, the later-created one
\* ranked first because its edit segment is smaller
C30_Witness ==
  \E p \in Responded :
    LET g == tx[p].resp IN
      /\ \E r \in g.nodes : r.id = 1 /\ r.sibling_rank = 0
      /\ \E a, b \in ChildGroup(g, 1, 1) :
           a.id < b.id /\ b.sibling_rank = 1 /\ a.sibling_rank = 2

\* the version string does not parse: it has no dot, or one of the two
\* parts around its first dot is empty or holds a character that is no
\* base-32 digit
Base32Chars == { BASE32_ALPHABET[i] : i \in 1..32 } \cup { UPPER32[i] : i \in 1..32 }

BadSegment(s) == Len(s) = 0 \/ \E i \in 1..Len(s) : s[i] \notin Base32Chars

Malformed(v) == ~HasDot(v) \/ BadSegment(ForkStr(v)) \/ BadSegment(EditStr(v))

\* C31: graph building never fails on a malformed version string: a node
\* whose version cannot be parsed is treated as fork segment 0 and edit
\* segment 0, is still listed with coordinates in column 0, and the
\* remaining nodes are laid out as usual.
C31_MalformedVersion ==
  \A p \in Responded :
    LET g == tx[p].resp
        P == Patches(tx[p].target, tx[p].user)
    IN /\ Listed(g) = P
       /\ Cardinality(g.nodes) = Cardinality(P)
       /\ \A n \in g.nodes :
            /\ Malformed(n.version) => n.column = 0 /\ n.x = X0
            /\ ~Malformed(n.version) =>
                 /\ n.column = IntBase32(ForkStr(n.version))
                 /\ n.x = X0 + n.column * COL_GAP
            /\ \E r \in 0..(2 * Cardinality(P)) : n.y = Y0 - r * ROW_GAP
       /\ \A a, b \in g.nodes : (a.id # b.id /\ a.x = b.x) => a.y # b.y
       /\ \A q \in P :
            \A a, b \in ChildGroup(g, q, 0) :
              (Malformed(a.version) /\ ~Malformed(b.version) /\ EditIdx(b) > 0) =>
                a.sibling_rank < b.sibling_rank

\* the root with two children: 0.1 and, created after it, a node whose
\* version has a fork segment 1 and an edit segment that is no number; the
\* second is in column 0 and ranked before the first
C31_Witness ==
  \E p \in Responded :
    \E a, b \in ChildGroup(tx[p].resp, 1, 0) :
      /\ a.version = << "1", ".", "w" >>
      /\ b.version = << "0", ".", "1" >>
      /\ b.id < a.id
      /\ a.sibling_rank = 1 /\ b.sibling_rank = 2

\* C32: the ancestor-path walk of lineage graph building terminates for
\* every stored predecessor relation, including one that contains a cycle
\* or a missing predecessor: every iteration adds a node not seen before,
\* the walk stops at the first repeated node or absent predecessor having
\* collected exactly the nodes before it, every iteration of the depth pass
\* takes a node not taken before and ends with the depths the payload is
\* laid out with, and a request in either loop comes out of it.
C32_WalkTerminates ==
  /\ [][ \A p \in Procs :
          /\ (tx[p].pc = "walking" /\ tx'[p].pc = "walking") =>
               /\ tx[p].head \notin tx[p].snap
               /\ tx'[p].snap = tx[p].snap \cup { tx[p].head }
          /\ (tx[p].pc = "walking" /\ tx'[p].pc = "bfs") =>
               /\ tx[p].head = 0 \/ tx[p].head \in tx[p].snap
               /\ tx[p].snap = Ancestors(tx[p].target, {})
          /\ (tx[p].pc = "bfs" /\ tx'[p].pc = "bfs") =>
               /\ Head(tx[p].inst.q) \notin tx[p].inst.popped
               /\ Cardinality(tx'[p].inst.popped) <= Cardinality(Ids)
          /\ (tx[p].pc = "ranked" /\ tx'[p].pc = "responded") =>
               \A n \in Listed(tx'[p].resp) :
                 base_d(Listed(tx'[p].resp), EffectiveRoot(tx[p].target), n)
                   = IF n \in DOMAIN tx[p].inst.depth THEN tx[p].inst.depth[n] ELSE 0 ]_vars
  /\ \A p \in Procs : (tx[p].pc = "walking") ~> (tx[p].pc = "bfs")
  /\ \A p \in Procs : (tx[p].pc = "bfs") ~> (tx[p].pc = "ranked")

\* a request by another user for a node on a cycle of three nodes through
\* the root has been answered after a walk that collected all three
C32_Witness ==
  \E p \in Responded :
    /\ tx[p].user # rows[tx[p].target].owner
    /\ tx[p].snap = 1..3
    /\ \A n \in 1..3 : rows[n].pred \notin { 0, n }
    /\ \A n \in 1..3 : rows[rows[n].pred].pred # n
    /\ Cardinality(tx[p].inst.popped) = 3

\* C33: building a lineage graph modifies no node: every field of every
\* stored node (version, root_id, stem_id, predecessor_id, fork counter,
\* is_deleted, is_posted) is the same after the call as before, whether the
\* call succeeds or returns not-found.
C33_GraphReadOnly ==
  [][ \A p \in Procs :
        (tx[p].pc = "idle" /\ tx'[p].pc \in { "responded", "rejected" }) =>
          /\ Len(rows') = Len(rows)
          /\ \A n \in Ids : ColumnsOf(n)' = ColumnsOf(n) /\ rows'[n].st = rows[n].st ]_vars

\* the graph of a fork whose lineage has a soft-deleted root has been built
\* for a requester who does not own the fork
C33_Witness ==
  \E p \in Responded :
    /\ tx[p].user # rows[tx[p].target].owner
    /\ rows[tx[p].target].via = "fork"
    /\ rows[rows[tx[p].target].root].is_deleted
    /\ EffectiveRoot(tx[p].target) # rows[tx[p].target].root

\* C34: fork_track(pk) called by any authenticated user, the owner of track
\* pk included, creates a fork of pk: the new track is a fork head k.0 whose
\* stem is itself and whose predecessor is pk, and pk's fork counter grows
\* by 1.
C34_ForkTrackForks ==
  [][ \A p \in Procs :
        (tx[p].pc = "locked" /\ tx'[p].pc = "idle") =>
          LET n == rows'[tx[p].self]
              pk == tx[p].src
          IN /\ EditStr(n.version) = << "0" >>
             /\ _parse_version(n.version)[1] >= 1
             /\ n.stem = tx[p].self
             /\ n.pred = pk
             /\ rows'[pk].forks = rows[pk].forks + 1 ]_vars

\* C35: an update request by the owner carrying is_deleted = false on their
\* soft-deleted node restores it: afterwards the node's is_deleted flag is
\* false and it appears again in ordinary listings.
C35_Restore ==
  [][ \A p \in Procs :
        (/\ tx[p].pc = "idle" /\ tx'[p].pc = "updated"
         /\ tx'[p].inst[1] = "is_deleted" /\ tx'[p].inst[2] = FALSE
         /\ tx'[p].user = rows[tx'[p].target].owner
         /\ rows[tx'[p].target].is_deleted) =>
          /\ ~rows'[tx'[p].target].is_deleted
          /\ tx'[p].target \in get_queryset(Committed)' ]_vars

\* C36: in every reachable state, all nodes under one root that share a
\* fork segment have the same owner (the owner of that segment's fork
\* head), so restricting the edit-index scan to the editing owner excludes
\* no node of the fork segment.
C36_SegmentOneOwner ==
  /\ \A a, b \in Committed :
        (SameLineage(a, b) /\ ForkSeg(a) = ForkSeg(b)) => rows[a].owner = rows[b].owner
  /\ \A p \in Procs :
        (tx[p].pc \in { "inserted", "scanning", "locked" } /\ tx[p].kind = "edit") =>
          \A i \in Committed :
            (rows[i].root = tx[p].root /\ ForkSeg(i) = ForkStr(tx[p].srcVersion))
              => rows[i].owner = tx[p].user

\* C37: in every reachable state, every derived node has the same root_id
\* as its source, whatever root hint the client sent, and every root_id
\* refers to a node whose own root_id is its id and whose version is 0.0.
C37_RootInherited ==
  \A n \in Committed :
    /\ rows[n].via \in { "edit", "fork" } => rows[n].root = rows[rows[n].src].root
    /\ rows[n].root \in Committed
    /\ rows[rows[n].root].root = rows[n].root
    /\ rows[rows[n].root].version = << "0", ".", "0" >>

\* the decoded fork segment of a stored node
ForkIdx(n) == _parse_version(rows[n].version)[1]

\* C38: in every reachable state, an edit node has the same fork segment as
\* its predecessor and a fork node has a fork segment strictly greater than
\* its predecessor's, so fork segments never increase along a predecessor
\* path walked toward the root.
C38_ForkSegmentsMonotone ==
  \A n \in Committed :
    /\ (rows[n].via = "edit" /\ rows[n].pred \in Committed) =>
         ForkSeg(n) = ForkSeg(rows[n].pred)
    /\ (rows[n].via = "fork" /\ rows[n].pred \in Committed) =>
         ForkIdx(n) > ForkIdx(rows[n].pred)
    /\ \A a \in Ancestors(n, {}) : ForkIdx(a) <= ForkIdx(n)

\* handler p has a derivation in flight
Deriving(p) == tx[p].pc \in { "inserted", "scanning", "locked" }

======================================================================
